---- MODULE Spec2Model ----
(***************************************************************************)
(* JFrog container registry cleaner (src/src/main.py): main() reads the    *)
(* configuration, validates it, groups the image specifiers by repository  *)
(* and calls JFrogCleaner.clean_old_images once per repository;            *)
(* clean_old_images lists the images, lists and sorts each image's tags,   *)
(* keeps the first keep_minimum of them and hands the older ones to        *)
(* delete_image_tag.                                                       *)
(*                                                                         *)
(* A run is a record r[w]; run 1 is the program, run 2 is a second run of  *)
(* the same program against the same registry answers, used to compare two *)
(* runs (dry against live, one override changed).  Time is counted in      *)
(* ticks, TicksPerDay ticks to the day.                                    *)
(***************************************************************************)
EXTENDS Integers, Sequences, FiniteSets, TLC

MaxFiles == 2         \* manifest files the registry holds, all images together
MaxLocal == 1         \* latest local time a lastModified string shows
MaxDays == 1          \* largest days_old of the configuration
MaxKeep == 1          \* largest keep_minimum of the configuration
TicksPerDay == 2      \* resolution of the clock
StartNow == 2         \* the clock when the run starts
MaxNow == 3           \* the clock stops here

VARIABLES r, env
vars == <<r, env>>

RunIds == {1, 2}
Other(w) == 3 - w

(***************************************************************************)
(* lastModified strings.  "iso" is an ISO-8601 string showing local time   *)
(* `local` and UTC offset `off` ("+HH:MM"), "bad" a string that is no      *)
(* date ("unknown"), "none" a file entry without the key.                  *)
(***************************************************************************)
Offsets == {0, 1}
NoneStamp == [kind |-> "none", local |-> 0, off |-> 0]
BadStamp == [kind |-> "bad", local |-> 0, off |-> 0]
IsoStamps == [kind : {"iso"}, local : 0..MaxLocal, off : Offsets]
Stamps == IsoStamps \cup {NoneStamp, BadStamp}

\* str < str on two lastModified strings: digits sort below letters, equal
\* local times are told apart by the offset suffix
KeyLess(a, b) ==
    IF a.kind = "iso" /\ b.kind = "iso"
    THEN a.local < b.local \/ (a.local = b.local /\ a.off < b.off)
    ELSE a.kind = "iso" /\ b.kind = "bad"

\* list.sort compares None with a str or with None: TypeError
SortRaises(tags) ==
    Len(tags) >= 2 /\ \E i \in 1..Len(tags) : tags[i].modified.kind = "none"

RECURSIVE InsertDesc(_, _)
InsertDesc(s, t) ==
    IF s = <<>> THEN <<t>>
    ELSE IF KeyLess(Head(s).modified, t.modified) THEN <<t>> \o s
    ELSE <<Head(s)>> \o InsertDesc(Tail(s), t)

\* tags.sort(key=lambda x: x.modified, reverse=True): descending by the
\* string, equal strings in their original order
RECURSIVE SortDesc(_)
SortDesc(tags) ==
    IF tags = <<>> THEN <<>>
    ELSE InsertDesc(SortDesc(SubSeq(tags, 1, Len(tags) - 1)), tags[Len(tags)])

\* a slip: the whole list is checked, no tag is exempt
TagsToCheckNoFloor(tags, keep) == tags

\* tags[img_keep_minimum:]
TagsToCheck(tags, keep) ==
    IF keep >= Len(tags) THEN <<>> ELSE SubSeq(tags, keep + 1, Len(tags))

\* tag_info.modified.replace(...) on None, fromisoformat on a non-date
ParseRaises(m) == m.kind # "iso"

\* datetime.fromisoformat(modified.replace("Z", "+00:00")): the instant
fromisoformat(m) == m.local - m.off

\* datetime.now(timezone.utc) - timedelta(days=img_days_old)
CutoffDate(now, days) == now - days * TicksPerDay

\* a slip: <= for <
IsOldOrEqual(m, cutoff) == fromisoformat(m) <= cutoff

\* tag_date < cutoff_date
IsOld(m, cutoff) == fromisoformat(m) < cutoff

(***************************************************************************)
(* The registry's answers.                                                 *)
(***************************************************************************)
ImageNames == {<<"a">>, <<"b">>}
Catalogs ==
    {<<>>} \cup {<<n>> : n \in ImageNames}
    \cup {<<n, m>> : <<n, m>> \in {p \in ImageNames \X ImageNames : p[1] # p[2]}}
CatalogResponses ==
    [ok : {TRUE}, repositories : Catalogs] \cup {[ok |-> FALSE, repositories |-> <<>>]}
FileLists == UNION {[1..n -> Stamps] : n \in 0..MaxFiles}
FileResponses ==
    [ok : {TRUE}, files : FileLists] \cup {[ok |-> FALSE, files |-> <<>>]}

\* get_images: the catalog, or [] after a RequestException
get_images(resp) == IF resp.ok THEN resp.repositories ELSE <<>>

\* get_image_tags: one ImageTag per manifest file, or [] after a
\* RequestException; the i-th file's tag directory is named i
get_image_tags(image_name, resp) ==
    IF resp.ok
    THEN [i \in 1..Len(resp.files) |->
            [tag |-> i, path |-> <<image_name, i>>, modified |-> resp.files[i]]]
    ELSE <<>>

(***************************************************************************)
(* The configuration file.                                                 *)
(***************************************************************************)
Omitted == -1
SpecA == <<"r1", "a">>
SpecB == <<"r1", "b">>
SpecC == <<"r2", "a">>
SpecBad == <<"bad">>
Specifiers == {SpecA, SpecB, SpecC, SpecBad}
ImageLists ==
    {<<>>, <<SpecA>>, <<SpecA, SpecB>>, <<SpecA, SpecC>>,
     <<SpecBad>>, <<SpecA, SpecBad>>, <<SpecBad, SpecA>>}
ImageConfigEntries ==
    [image : {SpecA}, days_old : {Omitted} \cup 0..MaxDays,
     keep_minimum : {Omitted} \cup 0..MaxKeep]
ImageConfigLists == {<<>>} \cup {<<e>> : e \in ImageConfigEntries}
Configs ==
    [credentials : BOOLEAN, images : ImageLists, days_old : 0..MaxDays,
     keep_minimum : 0..MaxKeep, dry_run : BOOLEAN, image_config : ImageConfigLists]

\* a slip: the specifier is not looked at
HasSlashUnchecked(spec) == TRUE

\* "/" in image_spec
HasSlash(spec) == Len(spec) >= 2
\* image_spec.split("/", 1)
RepoOf(spec) == spec[1]
ImageNameOf(spec) == Tail(spec)

\* a slip: the value of the entry is dropped
GetDefaultOnly(value, default) == default

\* dict.get(key, default)
Get(value, default) == IF value = Omitted THEN default ELSE value

NoSettings == [present |-> FALSE, days_old |-> 0, keep_minimum |-> 0]
PerImageSettings(d, k) == [present |-> TRUE, days_old |-> d, keep_minimum |-> k]

\* a slip: an entry's settings are stored for every image
RECURSIVE ImageSettingsShared(_, _, _)
ImageSettingsShared(entries, default_days_old, default_keep_minimum) ==
    IF entries = <<>> THEN [s \in Specifiers |-> NoSettings]
    ELSE LET e == entries[Len(entries)]
         IN [s \in Specifiers |->
                PerImageSettings(Get(e.days_old, default_days_old),
                                 Get(e.keep_minimum, default_keep_minimum))]

\* image_settings, built from [[image_config]] with the defaults filling
\* the keys an entry omits; a later entry for the same image replaces an
\* earlier one
RECURSIVE ImageSettings(_, _, _)
ImageSettings(entries, default_days_old, default_keep_minimum) ==
    IF entries = <<>> THEN [s \in Specifiers |-> NoSettings]
    ELSE LET n == Len(entries)
             e == entries[n]
             rest == ImageSettings(SubSeq(entries, 1, n - 1),
                                   default_days_old, default_keep_minimum)
         IN [rest EXCEPT ![e.image] =
                PerImageSettings(Get(e.days_old, default_days_old),
                                 Get(e.keep_minimum, default_keep_minimum))]

\* one ImageCleanupConfig of the loop over images
ImageCleanupConfig(spec, settings, default_days_old, default_keep_minimum) ==
    IF settings[spec].present
    THEN [image |-> spec, days_old |-> settings[spec].days_old,
          keep_minimum |-> settings[spec].keep_minimum]
    ELSE [image |-> spec, days_old |-> default_days_old,
          keep_minimum |-> default_keep_minimum]

\* the repositories in first-seen order (the keys of repo_images)
RECURSIVE RepoOrder(_)
RepoOrder(configs) ==
    IF configs = <<>> THEN <<>>
    ELSE LET n == Len(configs)
             before == RepoOrder(SubSeq(configs, 1, n - 1))
             repo == RepoOf(configs[n].image)
         IN IF \E i \in 1..Len(before) : before[i] = repo
            THEN before ELSE Append(before, repo)

\* repo_images[repo]: the image names of a repository, in the order given
RECURSIVE RepoImages(_, _)
RepoImages(configs, repo) ==
    IF configs = <<>> THEN <<>>
    ELSE LET n == Len(configs)
             before == RepoImages(SubSeq(configs, 1, n - 1), repo)
         IN IF RepoOf(configs[n].image) = repo
            THEN Append(before, ImageNameOf(configs[n].image)) ELSE before

\* repo_configs[repo][image_name]: the last configuration stored under it
RepoConfig(configs, repo, image_name) ==
    LET hits == {i \in 1..Len(configs) :
                    /\ RepoOf(configs[i].image) = repo
                    /\ ImageNameOf(configs[i].image) = image_name}
    IN configs[CHOOSE i \in hits : \A j \in hits : j <= i]

\* [i for i in images if i in include_images]
RECURSIVE FilterImages(_, _)
FilterImages(images, include_images) ==
    IF images = <<>> THEN <<>>
    ELSE LET rest == FilterImages(Tail(images), include_images)
         IN IF \E j \in 1..Len(include_images) : include_images[j] = Head(images)
            THEN <<Head(images)>> \o rest ELSE rest

(***************************************************************************)
(* CleanupStatistics.                                                      *)
(***************************************************************************)
NoStats == [checked |-> 0, deleted |-> 0, kept |-> 0, errors |-> 0]

\* CleanupStatistics.add
add(self, other) ==
    [checked |-> self.checked + other.checked,
     deleted |-> self.deleted + other.deleted,
     kept |-> self.kept + other.kept,
     errors |-> self.errors + other.errors]

(***************************************************************************)
(* delete_image_tag: what it returns, whether it sent a DELETE request and *)
(* what it printed.  request_ok is the registry's answer to the request.   *)
(***************************************************************************)
\* a slip: a dry run reports that nothing was deleted
delete_image_tag_dry_run_false(dry_run, request_ok) ==
    IF dry_run
    THEN [success |-> FALSE, request |-> FALSE, print |-> "WouldDelete"]
    ELSE IF request_ok
    THEN [success |-> TRUE, request |-> TRUE, print |-> "Deleted"]
    ELSE [success |-> FALSE, request |-> TRUE, print |-> "ErrorDeleting"]

\* a slip: the dry_run test is missing, the request is always sent
delete_image_tag_no_dry_run(dry_run, request_ok) ==
    IF request_ok
    THEN [success |-> TRUE, request |-> TRUE, print |-> "Deleted"]
    ELSE [success |-> FALSE, request |-> TRUE, print |-> "ErrorDeleting"]

delete_image_tag(dry_run, request_ok) ==
    IF dry_run
    THEN [success |-> TRUE, request |-> FALSE, print |-> "WouldDelete"]
    ELSE IF request_ok
    THEN [success |-> TRUE, request |-> TRUE, print |-> "Deleted"]
    ELSE [success |-> FALSE, request |-> TRUE, print |-> "ErrorDeleting"]

\* stats.checked += 1 at the top of the loop body
CountChecked(stats) == [stats EXCEPT !.checked = @ + 1]

\* a slip: the result of delete_image_tag is not looked at
CountDeleteIgnoringResult(stats, success) == [stats EXCEPT !.deleted = @ + 1]

\* the branch on success after delete_image_tag
CountDelete(stats, success) ==
    IF success THEN [stats EXCEPT !.deleted = @ + 1]
    ELSE [stats EXCEPT !.errors = @ + 1]

\* a slip: the kept tag is not counted
CountKeptForgotten(stats) == stats

\* the else branch of tag_date < cutoff_date
CountKept(stats) == [stats EXCEPT !.kept = @ + 1]

(***************************************************************************)
(* A run: main's locals, the frame of clean_old_images while it is         *)
(* running, and what the run has done so far (requests sent, calls made,   *)
(* errors printed, the outcomes of the image being processed).  Locals     *)
(* that are dead (reassigned before they are read again) are reset when    *)
(* the loop that owns them moves on.                                       *)
(***************************************************************************)
NullConfig ==
    [credentials |-> FALSE, images |-> <<>>, days_old |-> 0, keep_minimum |-> 0,
     dry_run |-> TRUE, image_config |-> <<>>]

InitRun(cfg) ==
    [pc |-> "start", config |-> cfg,
     image_settings |-> [s \in Specifiers |-> NoSettings],
     image_cleanup_configs |-> <<>>, repos |-> <<>>, repoIdx |-> 1,
     total_stats |-> NoStats,
     stats |-> NoStats, images |-> <<>>, imgIdx |-> 1,
     image_name |-> <<>>, cutoff_date |-> 0, img_keep_minimum |-> 0,
     tags |-> <<>>, tags_to_check |-> <<>>, tagIdx |-> 1,
     log |-> <<>>, seq |-> 0,
     httpDeletes |-> 0, fetchErrors |-> 0, engineCalls |-> 0]

OffRun == [InitRun(NullConfig) EXCEPT !.pc = "off"]

NoAnswers == [i \in 1..MaxFiles |-> "unset"]
InitEnv ==
    [relation |-> "single", seq |-> 0, kind |-> "none",
     catalog |-> [ok |-> FALSE, repositories |-> <<>>],
     listing |-> [ok |-> FALSE, files |-> <<>>],
     now |-> StartNow, answers |-> NoAnswers, files_left |-> MaxFiles]

Active(w) == r[w].pc \notin {"off", "done", "exit1", "crashed"}

LoopDone(w) == r[w].pc = "tags" /\ r[w].tagIdx > Len(r[w].tags_to_check)

\* Two runs meet the same registry: it answers run w's next listing afresh
\* when the other run has had all the earlier answers and is not in the
\* middle of an image, and repeats the answer it gave the other run when
\* that run asked first.  A run leaves an image when the other run is
\* through with the same image.
Fresh(w) ==
    /\ env.seq = r[w].seq
    /\ Active(Other(w)) => r[Other(w)].seq = r[w].seq /\ r[Other(w)].pc # "tags"
Repeat(w, kind) == env.seq = r[w].seq + 1 /\ env.kind = kind
MayLeave(w) ==
    Active(Other(w)) =>
        /\ r[Other(w)].seq = r[w].seq
        /\ r[Other(w)].pc = "tags" => LoopDone(Other(w))

(***************************************************************************)
(* main, up to the loop over the repositories.                             *)
(***************************************************************************)
\* lines 245-265: read the sections, build image_settings
LoadConfig(w) ==
    LET s == r[w] IN
    /\ s.pc = "start"
    /\ r' = [r EXCEPT ![w] = [s EXCEPT
                !.pc = "check_credentials",
                !.image_settings = ImageSettings(s.config.image_config,
                                       s.config.days_old, s.config.keep_minimum)]]
    /\ UNCHANGED env

\* lines 267-274
CheckCredentials(w) ==
    LET s == r[w] IN
    /\ s.pc = "check_credentials"
    /\ r' = [r EXCEPT ![w] = [s EXCEPT
                !.pc = IF s.config.credentials THEN "check_images" ELSE "exit1"]]
    /\ UNCHANGED env

\* lines 276-281
CheckImages(w) ==
    LET s == r[w] IN
    /\ s.pc = "check_images"
    /\ r' = [r EXCEPT ![w] = [s EXCEPT
                !.pc = IF s.config.images = <<>> THEN "exit1" ELSE "build_configs"]]
    /\ UNCHANGED env

\* lines 284-306: the loop exits the process at the first specifier
\* without "/"; nothing before it has left main
BuildConfigs(w) ==
    LET s == r[w]
        images == s.config.images
    IN
    /\ s.pc = "build_configs"
    /\ IF \E i \in 1..Len(images) : ~HasSlash(images[i])
       THEN r' = [r EXCEPT ![w] = [s EXCEPT !.pc = "exit1"]]
       ELSE r' = [r EXCEPT ![w] = [s EXCEPT
                    !.pc = "group",
                    !.image_cleanup_configs =
                        [i \in 1..Len(images) |->
                            ImageCleanupConfig(images[i], s.image_settings,
                                s.config.days_old, s.config.keep_minimum)]]]
    /\ UNCHANGED env

\* lines 331-345
GroupByRepository(w) ==
    LET s == r[w] IN
    /\ s.pc = "group"
    /\ r' = [r EXCEPT ![w] = [s EXCEPT
                !.pc = "repos",
                !.config.image_config = <<>>,
                !.image_settings = [x \in Specifiers |-> NoSettings],
                !.repos = RepoOrder(s.image_cleanup_configs),
                !.repoIdx = 1,
                !.total_stats = NoStats]]
    /\ UNCHANGED env

(***************************************************************************)
(* clean_old_images.                                                       *)
(***************************************************************************)
\* repo_image_settings[image_name] (lines 360-367)
RepoImageSettings(configs, repo, image_name) ==
    LET c == RepoConfig(configs, repo, image_name)
    IN PerImageSettings(c.days_old, c.keep_minimum)

\* lines 179-185: the image's own settings when it has any, else the
\* defaults passed to clean_old_images
ResolveSettings(img_settings, days_old, keep_minimum) ==
    IF img_settings.present
    THEN [days_old |-> img_settings.days_old,
          keep_minimum |-> img_settings.keep_minimum]
    ELSE [days_old |-> days_old, keep_minimum |-> keep_minimum]

\* lines 351-376 and 163-176: the next repository; clean_old_images starts
\* and lists the repository's images
StartRepository(w) ==
    LET s == r[w]
        repo == s.repos[s.repoIdx]
    IN
    /\ s.pc = "repos" /\ s.repoIdx <= Len(s.repos)
    /\ \E resp \in CatalogResponses :
        /\ \/ /\ Fresh(w)
              /\ env' = [env EXCEPT !.seq = @ + 1, !.kind = "catalog",
                                    !.catalog = resp, !.answers = NoAnswers]
           \/ /\ Repeat(w, "catalog")
              /\ resp = env.catalog
              /\ UNCHANGED env
        /\ r' = [r EXCEPT ![w] = [s EXCEPT
                    !.pc = "images",
                    !.stats = NoStats,
                    !.images = FilterImages(get_images(resp),
                                   RepoImages(s.image_cleanup_configs, repo)),
                    !.imgIdx = 1,
                    !.seq = @ + 1,
                    !.fetchErrors = @ + (IF resp.ok THEN 0 ELSE 1),
                    !.engineCalls = @ + 1]]

\* lines 178-212: the next image: its settings and cutoff, its tags,
\* sorted and cut
StartImage(w) ==
    LET s == r[w]
        repo == s.repos[s.repoIdx]
        image_name == s.images[s.imgIdx]
        img == ResolveSettings(
                   RepoImageSettings(s.image_cleanup_configs, repo, image_name),
                   s.config.days_old, s.config.keep_minimum)
    IN
    /\ s.pc = "images" /\ s.imgIdx <= Len(s.images)
    /\ \E resp \in FileResponses, now \in env.now..MaxNow :
        /\ \/ /\ Fresh(w)
              /\ Len(resp.files) <= env.files_left
              /\ env' = [env EXCEPT !.seq = @ + 1, !.kind = "listing",
                                    !.listing = resp, !.now = now,
                                    !.answers = NoAnswers,
                                    !.files_left = @ - Len(resp.files)]
           \/ /\ Repeat(w, "listing")
              /\ resp = env.listing /\ now = env.now
              /\ UNCHANGED env
        /\ LET tags == get_image_tags(image_name, resp)
               base == [s EXCEPT !.seq = @ + 1,
                                 !.fetchErrors = @ + (IF resp.ok THEN 0 ELSE 1)]
               frame == [base EXCEPT
                            !.image_name = image_name,
                            !.cutoff_date = CutoffDate(now, img.days_old),
                            !.img_keep_minimum = img.keep_minimum]
           IN r' = [r EXCEPT ![w] =
                    IF tags = <<>> THEN [base EXCEPT !.imgIdx = @ + 1]
                    ELSE IF SortRaises(tags)
                    THEN [frame EXCEPT !.pc = "crashed", !.tags = tags]
                    ELSE [frame EXCEPT
                            !.pc = "tags",
                            !.tags = SortDesc(tags),
                            !.tags_to_check =
                                TagsToCheck(SortDesc(tags), img.keep_minimum),
                            !.tagIdx = 1,
                            !.log = <<>>]]

\* lines 214-227: one tag of tags_to_check
ProcessTag(w) ==
    LET s == r[w]
        tag_info == s.tags_to_check[s.tagIdx]
        checked == CountChecked(s.stats)
    IN
    /\ s.pc = "tags" /\ s.tagIdx <= Len(s.tags_to_check)
    /\ IF ParseRaises(tag_info.modified)
       THEN /\ r' = [r EXCEPT ![w] = [s EXCEPT !.pc = "crashed", !.stats = checked]]
            /\ UNCHANGED env
       ELSE IF IsOld(tag_info.modified, s.cutoff_date)
       THEN \E request_ok \in BOOLEAN :
            LET res == delete_image_tag(s.config.dry_run, request_ok)
                answer == IF request_ok THEN "ok" ELSE "fail"
            IN
            /\ IF res.request
               THEN /\ env.answers[tag_info.tag] \in {"unset", answer}
                    /\ env' = [env EXCEPT !.answers[tag_info.tag] = answer]
               ELSE /\ request_ok
                    /\ UNCHANGED env
            /\ r' = [r EXCEPT ![w] = [s EXCEPT
                        !.stats = CountDelete(checked, res.success),
                        !.httpDeletes = @ + (IF res.request THEN 1 ELSE 0),
                        !.log = Append(@, [tag |-> tag_info.tag,
                                           outcome |-> res.print]),
                        !.tagIdx = @ + 1]]
       ELSE /\ r' = [r EXCEPT ![w] = [s EXCEPT
                        !.stats = CountKept(checked),
                        !.log = Append(@, [tag |-> tag_info.tag,
                                           outcome |-> "Kept"]),
                        !.tagIdx = @ + 1]]
            /\ UNCHANGED env

\* the loop over tags_to_check is exhausted: on to the next image
EndImage(w) ==
    LET s == r[w] IN
    /\ s.pc = "tags" /\ s.tagIdx > Len(s.tags_to_check)
    /\ MayLeave(w)
    /\ r' = [r EXCEPT ![w] = [s EXCEPT
                !.pc = "images", !.imgIdx = @ + 1,
                !.image_name = <<>>, !.cutoff_date = 0, !.img_keep_minimum = 0,
                !.tags = <<>>, !.tags_to_check = <<>>, !.tagIdx = 1,
                !.log = <<>>]]
    /\ UNCHANGED env

\* line 229 and line 378: clean_old_images returns, main adds the
\* repository's statistics to the total
ReturnStats(w) ==
    LET s == r[w] IN
    /\ s.pc = "images" /\ s.imgIdx > Len(s.images)
    /\ r' = [r EXCEPT ![w] = [s EXCEPT
                !.pc = "repos", !.repoIdx = @ + 1,
                !.total_stats = add(s.total_stats, s.stats),
                !.stats = NoStats, !.images = <<>>, !.imgIdx = 1]]
    /\ UNCHANGED env

\* lines 382-413: the summary table; main returns
PrintSummary(w) ==
    LET s == r[w] IN
    /\ s.pc = "repos" /\ s.repoIdx > Len(s.repos)
    /\ r' = [r EXCEPT ![w] = [s EXCEPT !.pc = "done"]]
    /\ UNCHANGED env

\* The two runs do not see each other, so one order of their steps stands
\* for all: run 2 moves when run 1 has ended or waits for it.
WantsCatalog(w) == r[w].pc = "repos" /\ r[w].repoIdx <= Len(r[w].repos)
WantsListing(w) == r[w].pc = "images" /\ r[w].imgIdx <= Len(r[w].images)
Waits(w) ==
    \/ WantsCatalog(w) /\ ~Fresh(w) /\ ~Repeat(w, "catalog")
    \/ WantsListing(w) /\ ~Fresh(w) /\ ~Repeat(w, "listing")
    \/ LoopDone(w) /\ ~MayLeave(w)
Turn(w) == w = 1 \/ ~Active(1) \/ Waits(1)

Next ==
    \E w \in RunIds :
      /\ Turn(w)
      /\
        \/ LoadConfig(w)
        \/ CheckCredentials(w)
        \/ CheckImages(w)
        \/ BuildConfigs(w)
        \/ GroupByRepository(w)
        \/ StartRepository(w)
        \/ StartImage(w)
        \/ ProcessTag(w)
        \/ EndImage(w)
        \/ ReturnStats(w)
        \/ PrintSummary(w)

\* one run of the program
Init ==
    /\ \E c \in Configs : r = <<InitRun(c), OffRun>>
    /\ env = InitEnv

Spec == Init /\ [][Next]_vars

\* two runs against the same registry answers: a dry run and a live run of
\* one configuration, or two runs that differ in the [[image_config]]
\* entry of one image
PairConfigs ==
    {c \in Configs : c.credentials /\ c.images = <<SpecA, SpecB>>}

InitPair ==
    \E c \in PairConfigs :
        \/ /\ c.dry_run
           /\ r = <<InitRun(c), InitRun([c EXCEPT !.dry_run = FALSE])>>
           /\ env = [InitEnv EXCEPT !.relation = "dry_live"]
        \/ \E ic \in ImageConfigLists \ {<<>>} :
              /\ c.image_config = <<>>
              /\ r = <<InitRun(c), InitRun([c EXCEPT !.image_config = ic])>>
              /\ env = [InitEnv EXCEPT !.relation = "override"]

SpecPair == InitPair /\ [][Next]_vars

(***************************************************************************)
(* What the claims speak of.                                               *)
(***************************************************************************)
DeleteOutcomes == {"WouldDelete", "Deleted", "ErrorDeleting"}
InTagLoop(w) == r[w].pc \in {"tags", "crashed"} /\ r[w].tags # <<>>
Instant(m) == m.local - m.off
Min(a, b) == IF a < b THEN a ELSE b
\* the tags of the floor: the first img_keep_minimum of the sorted list
FloorTags(w) ==
    {r[w].tags[j].tag : j \in 1..Min(r[w].img_keep_minimum, Len(r[w].tags))}
\* the tags handed to delete_image_tag for the image being processed
HandedToDelete(w) ==
    {r[w].log[i].tag : i \in {k \in 1..Len(r[w].log) :
                                r[w].log[k].outcome \in DeleteOutcomes}}
\* the days_old the configuration table shows for the image being processed
DaysOldOfImage(w) ==
    LET spec == <<r[w].repos[r[w].repoIdx]>> \o r[w].image_name
        c == r[w].image_cleanup_configs
    IN c[CHOOSE i \in 1..Len(c) : c[i].image = spec].days_old
Balanced(stats) == stats.checked = stats.deleted + stats.errors + stats.kept

\* C1: no tag of the floor (the first keep_minimum tags of the sorted list)
\* is ever handed to delete_image_tag, whatever days_old is; when
\* keep_minimum >= the number of tags nothing of the image is handed over
\* or even evaluated.
C1_FloorNeverDeleted ==
    \A w \in RunIds :
        InTagLoop(w) =>
            /\ FloorTags(w) \cap HandedToDelete(w) = {}
            /\ r[w].img_keep_minimum >= Len(r[w].tags) => r[w].log = <<>>

\* C1 happens: days_old = 0, a floor tag older than the cutoff, and the
\* other tag of the image handed to delete_image_tag
C1_Witness ==
    \E w \in RunIds :
        /\ LoopDone(w)
        /\ Len(r[w].tags) = 2 /\ r[w].img_keep_minimum = 1
        /\ r[w].cutoff_date = env.now
        /\ Instant(r[w].tags[1].modified) < r[w].cutoff_date
        /\ HandedToDelete(w) = {r[w].tags[2].tag}

\* C2: a tag outside the floor is handed to delete_image_tag exactly when
\* its lastModified instant is strictly before now - days_old of its image;
\* otherwise (the cutoff itself included) it is counted as kept and
\* delete_image_tag is not called.
C2_DeleteIffOlderThanCutoff ==
    [][\A w \in RunIds :
        (r[w].pc = "tags" /\ r'[w].pc = "tags" /\ r'[w].tagIdx = r[w].tagIdx + 1) =>
            LET t == r[w].tags_to_check[r[w].tagIdx]
                cutoff == env.now - DaysOldOfImage(w) * TicksPerDay
                entry == r'[w].log[Len(r'[w].log)]
            IN /\ t = r[w].tags[r[w].img_keep_minimum + r[w].tagIdx]
               /\ Len(r'[w].log) = Len(r[w].log) + 1
               /\ entry.tag = t.tag
               /\ IF Instant(t.modified) < cutoff
                  THEN /\ entry.outcome \in DeleteOutcomes
                       /\ r'[w].stats.kept = r[w].stats.kept
                  ELSE /\ entry.outcome = "Kept"
                       /\ r'[w].stats.kept = r[w].stats.kept + 1
                       /\ r'[w].httpDeletes = r[w].httpDeletes
                       /\ r'[w].stats.deleted = r[w].stats.deleted
                       /\ r'[w].stats.errors = r[w].stats.errors]_vars

\* C2 happens: one tag at the cutoff exactly was kept, one before it was
\* handed to delete_image_tag
C2_Witness ==
    \E w \in RunIds :
        /\ LoopDone(w) /\ Len(r[w].log) = 2
        /\ \E i, j \in 1..2 :
            /\ r[w].log[i].outcome = "Kept"
            /\ Instant(r[w].tags_to_check[i].modified) = r[w].cutoff_date
            /\ r[w].log[j].outcome \in DeleteOutcomes
            /\ Instant(r[w].tags_to_check[j].modified) < r[w].cutoff_date

\* C3: whenever a tag has been fully processed, and at the end of every
\* image, repository and run, checked = deleted + errors + kept; the
\* statistics of a scope start at zero; a counter only grows, one tag
\* outside the floor at a time; the tags of the floor are counted nowhere;
\* kept grows only for a tag kept as too recent.
C3_StatisticsBalance ==
    /\ [](\A w \in RunIds :
            r[w].pc # "crashed" => Balanced(r[w].stats) /\ Balanced(r[w].total_stats))
    /\ [][\A w \in RunIds :
            LET old == r[w].stats
                new == r'[w].stats
                tot == r[w].total_stats
                tot2 == r'[w].total_stats
            IN /\ (r[w].pc = "repos" /\ r'[w].pc = "images") => new = NoStats
               /\ (r[w].pc = "images" /\ r'[w].pc = "repos") =>
                    /\ tot2.checked = tot.checked + old.checked
                    /\ tot2.deleted = tot.deleted + old.deleted
                    /\ tot2.kept = tot.kept + old.kept
                    /\ tot2.errors = tot.errors + old.errors
               /\ tot2.checked >= tot.checked /\ tot2.deleted >= tot.deleted
               /\ tot2.kept >= tot.kept /\ tot2.errors >= tot.errors
               /\ (new # old /\ ~(r[w].pc = "images" /\ r'[w].pc = "repos")
                            /\ ~(r[w].pc = "repos" /\ r'[w].pc = "images")) =>
                    /\ r[w].pc = "tags"
                    /\ r[w].tags_to_check[r[w].tagIdx].tag \notin FloorTags(w)
                    /\ new.checked = old.checked + 1
                    /\ new.deleted >= old.deleted /\ new.errors >= old.errors
                    /\ new.kept >= old.kept
                    /\ new.kept # old.kept =>
                         /\ Len(r'[w].log) = Len(r[w].log) + 1
                         /\ r'[w].log[Len(r'[w].log)].outcome = "Kept"]_vars

\* C3 happens: a run over two repositories ends with a failed deletion and
\* a kept tag in its totals
C3_Witness ==
    \E w \in RunIds :
        /\ r[w].pc = "done" /\ r[w].engineCalls = 2
        /\ r[w].total_stats.errors = 1 /\ r[w].total_stats.kept = 1
        /\ r[w].total_stats.checked = 2

\* C4: in a dry run delete_image_tag sends no DELETE request, the registry
\* is never asked to delete anything, and every call succeeds.
C4_DryRunIsNoOp ==
    \A w \in RunIds :
        (r[w].pc # "off" /\ r[w].config.dry_run) =>
            /\ r[w].httpDeletes = 0
            /\ env.relation = "single" => env.answers = NoAnswers
            /\ r[w].stats.errors = 0 /\ r[w].total_stats.errors = 0
            /\ \A i \in 1..Len(r[w].log) :
                    r[w].log[i].outcome \in {"WouldDelete", "Kept"}

\* C4 happens: a dry run has handed two tags to delete_image_tag
C4_Witness ==
    \E w \in RunIds :
        /\ r[w].config.dry_run /\ LoopDone(w)
        /\ Len(r[w].log) = 2
        /\ \A i \in 1..2 : r[w].log[i].outcome = "WouldDelete"
        /\ r[w].stats.deleted = 2

\* C6: when the registry refuses a DELETE request, errors grows by one for
\* that tag, deleted and kept do not, and the loops go on with the next
\* tag: nothing is skipped, and a run that ends has called
\* clean_old_images for every repository.
C6_DeleteFailureIsCountedAndSkipped ==
    /\ [](\A w \in RunIds : r[w].pc = "done" => r[w].engineCalls = Len(r[w].repos))
    /\ [][\A w \in RunIds :
            (/\ r[w].pc = "tags"
             /\ r'[w].httpDeletes = r[w].httpDeletes + 1
             /\ env'.answers[r[w].tags_to_check[r[w].tagIdx].tag] = "fail") =>
                /\ r'[w].stats.errors = r[w].stats.errors + 1
                /\ r'[w].stats.deleted = r[w].stats.deleted
                /\ r'[w].stats.kept = r[w].stats.kept
                /\ r'[w].pc = "tags"
                /\ r'[w].tagIdx = r[w].tagIdx + 1
                /\ r'[w].tags_to_check = r[w].tags_to_check
                /\ r'[w].images = r[w].images /\ r'[w].imgIdx = r[w].imgIdx
                /\ r'[w].repos = r[w].repos /\ r'[w].repoIdx = r[w].repoIdx]_vars

\* C6 happens: a deletion failed for one image of the repository and a tag
\* of the next image has been evaluated since
C6_Witness ==
    \E w \in RunIds :
        /\ r[w].pc = "tags" /\ r[w].imgIdx = 2
        /\ r[w].stats.errors = 1 /\ r[w].stats.checked = 2
        /\ Len(r[w].log) = 1 /\ r[w].log[1].outcome # "ErrorDeleting"

\* C7: a tag whose lastModified is missing or not a date does not abort
\* the image: it sorts after every tag with a date, and the run goes on.
C7_MalformedTimestampRecovered ==
    \A w \in RunIds :
        /\ r[w].pc # "crashed"
        /\ r[w].pc = "tags" =>
             \A i, j \in 1..Len(r[w].tags) :
                (r[w].tags[i].modified.kind # "iso"
                    /\ r[w].tags[j].modified.kind = "iso") => j < i

\* C8: no run ends normally after an error (a listing that failed, a
\* deletion that failed) with every field of the totals unchanged.
C8_NoErrorWithoutTrace ==
    \A w \in RunIds :
        (r[w].pc = "done" /\ r[w].fetchErrors > 0) => r[w].total_stats # NoStats

\* C9: with credentials missing, no image listed or a specifier without
\* "/" anywhere in the list, main never gets past its checks: it calls
\* clean_old_images for no repository and sends no request.
ConfigurationError(cfg) ==
    \/ ~cfg.credentials
    \/ cfg.images = <<>>
    \/ \E i \in 1..Len(cfg.images) : cfg.images[i] = SpecBad
C9_ConfigurationErrorsAbortFirst ==
    \A w \in RunIds :
        (r[w].pc # "off" /\ ConfigurationError(r[w].config)) =>
            /\ r[w].pc \in {"start", "check_credentials", "check_images",
                            "build_configs", "exit1"}
            /\ r[w].engineCalls = 0 /\ r[w].seq = 0 /\ r[w].httpDeletes = 0
            /\ env.relation = "single" => env.seq = 0

\* C9 happens: main has exited on the specifier without "/" that follows a
\* well-formed one
C9_Witness ==
    \E w \in RunIds :
        /\ r[w].pc = "exit1" /\ r[w].config.credentials
        /\ r[w].config.images = <<SpecA, SpecBad>>

\* Both runs have ended normally / are through with the same image.
BothDone == r[1].pc = "done" /\ r[2].pc = "done"
SameImageDone == LoopDone(1) /\ LoopDone(2) /\ r[1].seq = r[2].seq

\* C5 as stated: the dry run (run 1) and the live run (run 2) of one
\* configuration against the same registry answers report the same
\* deleted count.
C5_DryAndLiveDeletedEqual ==
    (env.relation = "dry_live" /\ BothDone) =>
        r[1].total_stats.deleted = r[2].total_stats.deleted

\* C5 amended: the dry run's deleted count is the live run's deleted count
\* plus its errors count (the tags the live run hands to delete_image_tag);
\* checked and kept agree, and the dry run reports no error.  The same
\* holds of the repository statistics when both runs are through with an
\* image.
DryMatchesLive(dry, live) ==
    /\ dry.deleted = live.deleted + live.errors
    /\ dry.errors = 0
    /\ dry.checked = live.checked
    /\ dry.kept = live.kept
C5_DryDeletedIsLiveDeletedPlusErrors ==
    env.relation = "dry_live" =>
        /\ BothDone => DryMatchesLive(r[1].total_stats, r[2].total_stats)
        /\ SameImageDone =>
             /\ DryMatchesLive(r[1].stats, r[2].stats)
             /\ DryMatchesLive(r[1].total_stats, r[2].total_stats)

\* C5 happens: both runs have ended, the live run with a deletion and a
\* failed deletion
C5_Witness ==
    /\ env.relation = "dry_live" /\ BothDone
    /\ r[2].total_stats.errors = 1 /\ r[2].total_stats.deleted = 1
    /\ r[1].total_stats.deleted = 2

\* C10: for two runs that differ only in the [[image_config]] entry of
\* r1/a, the cutoff, the floor and the outcomes of every tag of the sibling
\* image r1/b are the same; and the cutoff of every image is now minus the
\* days_old of that image.
C10_SiblingUnaffectedByOverride ==
    /\ \A w \in RunIds :
        r[w].pc = "tags" =>
            r[w].cutoff_date = env.now - DaysOldOfImage(w) * TicksPerDay
    /\ (env.relation = "override" /\ SameImageDone /\ r[1].image_name # <<"a">>) =>
        /\ r[1].image_name = r[2].image_name
        /\ r[1].cutoff_date = r[2].cutoff_date
        /\ r[1].img_keep_minimum = r[2].img_keep_minimum
        /\ r[1].tags = r[2].tags
        /\ FloorTags(1) = FloorTags(2)
        /\ r[1].tags_to_check = r[2].tags_to_check
        /\ r[1].log = r[2].log

\* C10 happens: the two runs, whose settings for r1/a differ in both
\* fields, are through with r1/b, a tag of it in the floor, one evaluated
C10_Witness ==
    /\ env.relation = "override" /\ SameImageDone
    /\ r[1].image_name = <<"b">> /\ r[2].image_name = <<"b">>
    /\ r[1].image_cleanup_configs[1].days_old # r[2].image_cleanup_configs[1].days_old
    /\ r[1].image_cleanup_configs[1].keep_minimum
         # r[2].image_cleanup_configs[1].keep_minimum
    /\ Len(r[1].tags) = 2 /\ Len(r[1].log) = 1

\* the policy the configuration file states for an image: the defaults
\* when no [[image_config]] entry names it, else the fields of its (last)
\* entry, each omitted field replaced by the default of that field
StatedPolicy(cfg, spec) ==
    LET ic == cfg.image_config
        hits == {i \in 1..Len(ic) : ic[i].image = spec}
    IN IF hits = {}
       THEN [days_old |-> cfg.days_old, keep_minimum |-> cfg.keep_minimum]
       ELSE LET e == ic[CHOOSE i \in hits : \A j \in hits : j <= i]
            IN [days_old |-> IF e.days_old = Omitted
                             THEN cfg.days_old ELSE e.days_old,
                keep_minimum |-> IF e.keep_minimum = Omitted
                                 THEN cfg.keep_minimum ELSE e.keep_minimum]
\* the keep_minimum the configuration table shows for the image being
\* processed
KeepMinimumOfImage(w) ==
    LET spec == <<r[w].repos[r[w].repoIdx]>> \o r[w].image_name
        c == r[w].image_cleanup_configs
    IN c[CHOOSE i \in 1..Len(c) : c[i].image = spec].keep_minimum
Resolved(w) == r[w].pc \notin {"off", "start", "check_credentials",
                               "check_images", "build_configs", "exit1"}

\* C11: the policy resolved for every configured image is the global
\* default days_old and keep_minimum when no [[image_config]] entry names
\* the image, and the entry's days_old and keep_minimum when one does,
\* each field the entry omits being the global default of that field; the
\* resolved table does not change afterwards, and the floor and the cutoff
\* the engine uses for an image are those of the table.
C11_PolicyResolution ==
    /\ [](\A w \in RunIds :
            /\ r[w].pc = "group" =>
                 /\ Len(r[w].image_cleanup_configs) = Len(r[w].config.images)
                 /\ \A i \in 1..Len(r[w].config.images) :
                      LET c == r[w].image_cleanup_configs[i]
                          p == StatedPolicy(r[w].config, r[w].config.images[i])
                      IN /\ c.image = r[w].config.images[i]
                         /\ c.days_old = p.days_old
                         /\ c.keep_minimum = p.keep_minimum
            /\ r[w].pc = "tags" =>
                 /\ r[w].img_keep_minimum = KeepMinimumOfImage(w)
                 /\ r[w].cutoff_date = CutoffDate(env.now, DaysOldOfImage(w)))
    /\ [][\A w \in RunIds :
            Resolved(w) =>
                /\ r'[w].image_cleanup_configs = r[w].image_cleanup_configs
                /\ r'[w].config.days_old = r[w].config.days_old
                /\ r'[w].config.keep_minimum = r[w].config.keep_minimum]_vars

\* C11 happens: r1/a has an entry that gives days_old, other than the
\* default, and omits keep_minimum; r1/b has no entry; the table is built
C11_Witness ==
    /\ r[1].pc = "group"
    /\ r[1].config.images = <<SpecA, SpecB>>
    /\ Len(r[1].config.image_config) = 1
    /\ r[1].config.image_config[1].days_old \notin {Omitted, r[1].config.days_old}
    /\ r[1].config.image_config[1].keep_minimum = Omitted
    /\ r[1].config.keep_minimum = MaxKeep
    /\ r[1].image_cleanup_configs[1].keep_minimum = MaxKeep
    /\ r[1].image_cleanup_configs[2].days_old = r[1].config.days_old

\* C12: for every image whose timestamps all parse, every tag of the floor
\* is at least as recent, as an instant, as every tag outside it; the tags
\* are evaluated, and so handed to delete_image_tag, from the most recent
\* instant to the oldest; and tags with the same timestamp are evaluated
\* in the order the listing returned them.
C12_FloorAndOrderByInstant ==
    \A w \in RunIds :
        (/\ r[w].pc = "tags"
         /\ \A i \in 1..Len(r[w].tags) : r[w].tags[i].modified.kind = "iso") =>
            LET tags == r[w].tags
                check == r[w].tags_to_check
                k == Min(r[w].img_keep_minimum, Len(tags))
            IN /\ \A i \in 1..k, j \in (k + 1)..Len(tags) :
                    Instant(tags[i].modified) >= Instant(tags[j].modified)
               /\ \A i, j \in 1..Len(check) :
                    i < j =>
                        /\ Instant(check[i].modified) >= Instant(check[j].modified)
                        /\ check[i].modified = check[j].modified =>
                               check[i].tag < check[j].tag

====
